---- MODULE Spec2Model ----
(***************************************************************************)
(* A model of tf-scraper.py: the variable lookup chain, the interpolation  *)
(* resolver, the resource-type formatter, the record builder, the root     *)
(* scope builder and the per-file walk of main.                            *)
(*                                                                         *)
(* Python strings are sequences of one-character strings, so the regular   *)
(* expression scan and str.replace work on characters as in the source.    *)
(* A Python value is a record [t, s, n]: t is "str" (s holds the text),    *)
(* "int" (n holds the number) or "list" (a one-element list whose element  *)
(* is the string s).  A dict is a function from keys to values.  A call    *)
(* returns Ok(v) or Raise(e), e naming the exception that leaves it.       *)
(***************************************************************************)
EXTENDS Integers, Sequences, FiniteSets, TLC

VARIABLES
    \* a run of main
    pc,                  \* where main is: "find", "root", "walk", "done", "aborted";
                         \* "call" and "returned" for one call of a function
    fs,                  \* the directory tree: fs.tf and fs.tfvars map each path to its content
    terraform_files,     \* main's terraform_files
    main_root_variables, \* main's root_variables
    main_root_main_tf,   \* main's root_main_tf
    resources,           \* the list get_resources accumulates
    file_idx,            \* the position of get_resources' loop in terraform_files
    printed,             \* the paths get_resources printed "Error parsing" for
    error,               \* the exception that left main, "none" while there is none
    csv,                 \* the rows write_to_csv wrote
    \* one call of a function of the module
    call,                \* the function called and its arguments
    ret                  \* what the call returned or raised

vars == <<pc, fs, terraform_files, main_root_variables, main_root_main_tf, resources,
          file_idx, printed, error, csv, call, ret>>

\* ------------------------------------------------------------ characters

LowerAlpha == <<"a","b","c","d","e","f","g","h","i","j","k","l","m",
                "n","o","p","q","r","s","t","u","v","w","x","y","z">>

UpperAlpha == <<"A","B","C","D","E","F","G","H","I","J","K","L","M",
                "N","O","P","Q","R","S","T","U","V","W","X","Y","Z">>

Digits == <<"0","1","2","3","4","5","6","7","8","9">>

Range(f) == { f[i] : i \in DOMAIN f }

IndexOf(seq, c) == CHOOSE i \in DOMAIN seq : seq[i] = c

\* str.upper() and str.lower() on one character
UpperChar(c) == IF c \in Range(LowerAlpha) THEN UpperAlpha[IndexOf(LowerAlpha, c)] ELSE c

LowerChar(c) == IF c \in Range(UpperAlpha) THEN LowerAlpha[IndexOf(UpperAlpha, c)] ELSE c

Upper(s) == [i \in DOMAIN s |-> UpperChar(s[i])]

Lower(s) == [i \in DOMAIN s |-> LowerChar(s[i])]

\* str.capitalize(): first character upper-cased, the rest lower-cased
Capitalize(s) == [i \in DOMAIN s |-> IF i = 1 THEN UpperChar(s[i]) ELSE LowerChar(s[i])]

\* the regular expression classes [a-zA-Z_] and [a-zA-Z0-9_]
IsIdStart(c) == c \in Range(LowerAlpha) \cup Range(UpperAlpha) \cup {"_"}

IsIdChar(c) == IsIdStart(c) \/ c \in Range(Digits)

\* ---------------------------------------------------------------- values

PyStr(s) == [t |-> "str", s |-> s, n |-> 0]

PyInt(n) == [t |-> "int", s |-> <<>>, n |-> n]

PyList(s) == [t |-> "list", s |-> s, n |-> 0]

NoneVal == [t |-> "none", s |-> <<>>, n |-> 0]

Ok(v) == [ok |-> TRUE, val |-> v, err |-> "none"]

Raise(e) == [ok |-> FALSE, val |-> NoneVal, err |-> e]

RECURSIVE DecimalDigits(_)
DecimalDigits(n) == IF n < 10 THEN <<Digits[n + 1]>>
                    ELSE DecimalDigits(n \div 10) \o <<Digits[(n % 10) + 1]>>

\* str(var_value): the text of a string, the decimal form of a number, the repr of a list
ToStr(v) == CASE v.t = "str" -> v.s
              [] v.t = "int" -> DecimalDigits(v.n)
              [] v.t = "list" -> <<"[", "'">> \o v.s \o <<"'", "]">>
              [] OTHER -> <<"N", "o", "n", "e">>

NA == <<"N", "/", "A">>

\* the text ${var.NAME}
RefPrefix == <<"$", "{", "v", "a", "r", ".">>

Ref(name) == RefPrefix \o name \o <<"}">>

\* ------------------------------------------------------- re and str.replace

StartsWithAt(s, i, p) == /\ i + Len(p) - 1 <= Len(s)
                         /\ \A k \in 1..Len(p) : s[i + k - 1] = p[k]

\* the last index of the run of identifier characters that starts at i
RECURSIVE IdEnd(_, _)
IdEnd(s, i) == IF i + 1 <= Len(s) /\ IsIdChar(s[i + 1]) THEN IdEnd(s, i + 1) ELSE i

\* does \${var\.([a-zA-Z_][a-zA-Z0-9_]*)} match at position i
MatchesAt(s, i) == /\ StartsWithAt(s, i, RefPrefix)
                   /\ i + 6 <= Len(s)
                   /\ IsIdStart(s[i + 6])
                   /\ IdEnd(s, i + 6) + 1 <= Len(s)
                   /\ s[IdEnd(s, i + 6) + 1] = "}"

RECURSIVE FindAllFrom(_, _)
FindAllFrom(s, i) ==
    IF i > Len(s) THEN <<>>
    ELSE IF MatchesAt(s, i)
         THEN <<SubSeq(s, i + 6, IdEnd(s, i + 6))>> \o FindAllFrom(s, IdEnd(s, i + 6) + 2)
         ELSE FindAllFrom(s, i + 1)

\* re.findall: the captured names of the non-overlapping matches, left to right
FindAll(s) == FindAllFrom(s, 1)

RECURSIVE ReplaceFrom(_, _, _, _)
ReplaceFrom(s, i, old, new) ==
    IF i > Len(s) THEN <<>>
    ELSE IF StartsWithAt(s, i, old)
         THEN new \o ReplaceFrom(s, i + Len(old), old, new)
         ELSE <<s[i]>> \o ReplaceFrom(s, i + 1, old, new)

\* str.replace(old, new): every non-overlapping occurrence, left to right
Replace(s, old, new) == ReplaceFrom(s, 1, old, new)

\* ------------------------------------------------- the variable lookup chain

\* The depth of Python frames a resolution may nest before the interpreter
\* raises RecursionError.  An acyclic chain over Names nests at most
\* 2 * Cardinality(Names) + 2 frames, so only a cyclic definition reaches it.
RecursionLimit == 8

\* One override file as hcl2.load sees it: malformed, or a mapping of names.
Tfvars(m) == [exists |-> TRUE, bad |-> FALSE, vars |-> m]

BadFile == [exists |-> TRUE, bad |-> TRUE, vars |-> <<>>]

NoTfvars == [exists |-> FALSE, bad |-> FALSE, vars |-> <<>>]

\* mutant of TfvarsLookup: the last file that holds the name wins
RECURSIVE TfvarsLookupLast(_, _, _)
TfvarsLookupLast(var_name, tfvars_files, i) ==
    LET rest == IF i < Len(tfvars_files) THEN TfvarsLookupLast(var_name, tfvars_files, i + 1)
                ELSE [found |-> FALSE, res |-> Ok(NoneVal)] IN
    IF i > Len(tfvars_files) THEN [found |-> FALSE, res |-> Ok(NoneVal)]
    ELSE IF tfvars_files[i].bad THEN [found |-> TRUE, res |-> Raise("ParseError")]
    ELSE IF rest.found THEN rest
    ELSE IF var_name \in DOMAIN tfvars_files[i].vars
         THEN [found |-> TRUE, res |-> Ok(tfvars_files[i].vars[var_name])]
         ELSE rest

\* the loop over tfvars_files: the files are opened and parsed in order until
\* one holds the name; a malformed file raises when it is opened
RECURSIVE TfvarsLookup(_, _, _)
TfvarsLookup(var_name, tfvars_files, i) ==
    IF i > Len(tfvars_files) THEN [found |-> FALSE, res |-> Ok(NoneVal)]
    ELSE IF tfvars_files[i].bad THEN [found |-> TRUE, res |-> Raise("ParseError")]
    ELSE IF var_name \in DOMAIN tfvars_files[i].vars
         THEN [found |-> TRUE, res |-> Ok(tfvars_files[i].vars[var_name])]
         ELSE TfvarsLookup(var_name, tfvars_files, i + 1)

RECURSIVE get_variable_value(_, _, _, _, _, _)
RECURSIVE resolve_interpolation(_, _, _, _, _, _)
RECURSIVE SubstituteMatches(_, _, _, _, _, _, _, _)

\* mutant of get_variable_value: a root value is resolved against the root scope
\* alone, not against the caller's local scope and override files
get_variable_value_root_scope(var_name, variables, tfvars_files, root_variables, root_main_tf, depth) ==
    IF depth > RecursionLimit THEN Raise("RecursionError")
    ELSE IF var_name \in DOMAIN variables THEN Ok(variables[var_name])
    ELSE LET scan == TfvarsLookup(var_name, tfvars_files, 1) IN
         IF scan.found THEN scan.res
         ELSE IF var_name \in DOMAIN root_variables
              THEN resolve_interpolation(root_variables[var_name], <<>>, <<>>,
                                         root_variables, root_main_tf, depth + 1)
         ELSE IF var_name \in DOMAIN root_main_tf
              THEN resolve_interpolation(root_main_tf[var_name], <<>>, <<>>,
                                         root_variables, root_main_tf, depth + 1)
         ELSE Ok(PyStr(NA))

get_variable_value(var_name, variables, tfvars_files, root_variables, root_main_tf, depth) ==
    IF depth > RecursionLimit THEN Raise("RecursionError")
    ELSE IF var_name \in DOMAIN variables THEN Ok(variables[var_name])
    ELSE LET scan == TfvarsLookup(var_name, tfvars_files, 1) IN
         IF scan.found THEN scan.res
         ELSE IF var_name \in DOMAIN root_variables
              THEN resolve_interpolation(root_variables[var_name], variables, tfvars_files,
                                         root_variables, root_main_tf, depth + 1)
         ELSE IF var_name \in DOMAIN root_main_tf
              THEN resolve_interpolation(root_main_tf[var_name], variables, tfvars_files,
                                         root_variables, root_main_tf, depth + 1)
         ELSE Ok(PyStr(NA))

\* the for loop over matches: value = value.replace('${var.match}', str(var_value)),
\* each replace applied to the string the previous one left
SubstituteMatches(matches, k, value, variables, tfvars_files, root_variables, root_main_tf, depth) ==
    IF k > Len(matches) THEN Ok(PyStr(value))
    ELSE LET var_value == get_variable_value(matches[k], variables, tfvars_files,
                                             root_variables, root_main_tf, depth + 1) IN
         IF ~var_value.ok THEN var_value
         ELSE SubstituteMatches(matches, k + 1,
                                Replace(value, Ref(matches[k]), ToStr(var_value.val)),
                                variables, tfvars_files, root_variables, root_main_tf, depth)

resolve_interpolation(value, variables, tfvars_files, root_variables, root_main_tf, depth) ==
    IF depth > RecursionLimit THEN Raise("RecursionError")
    ELSE IF value.t = "str"
         THEN SubstituteMatches(FindAll(value.s), 1, value.s, variables, tfvars_files,
                                root_variables, root_main_tf, depth)
         ELSE Ok(value)

\* -------------------------------------------------------- format_resource_type

acronyms == { <<"a","w","s">>, <<"i","a","m">>, <<"k","m","s">>,
              <<"d","n","s">>, <<"c","n","a","m","e">>, <<"l","b">>,
              <<"e","c","r">>, <<"e","c","s">>, <<"v","p","c">>,
              <<"d","b">>, <<"e","i","p">>, <<"n","a","t">>,
              <<"a","c","m">> }

\* str.split(sep) for a one-character separator: empty parts are kept
RECURSIVE SplitFrom(_, _, _, _)
SplitFrom(s, i, sep, part) ==
    IF i > Len(s) THEN <<part>>
    ELSE IF s[i] = sep THEN <<part>> \o SplitFrom(s, i + 1, sep, <<>>)
    ELSE SplitFrom(s, i + 1, sep, Append(part, s[i]))

Split(s, sep) == SplitFrom(s, 1, sep, <<>>)

\* sep.join(parts)
RECURSIVE Join(_, _)
Join(parts, sep) ==
    IF Len(parts) = 0 THEN <<>>
    ELSE IF Len(parts) = 1 THEN parts[1]
    ELSE parts[1] \o sep \o Join(Tail(parts), sep)

\* mutant of IsAcronym: the part is compared as written, not lower-cased
IsAcronymAsWritten(part) == part \in acronyms

\* the test part.lower() in acronyms
IsAcronym(part) == Lower(part) \in acronyms

\* part.upper() if part.lower() in acronyms else part.capitalize()
FormatPart(part) == IF IsAcronym(part) THEN Upper(part) ELSE Capitalize(part)

Appautoscaling == <<"A","p","p","a","u","t","o","s","c","a","l","i","n","g">>

AppAutoScaling == <<"A","p","p","A","u","t","o","S","c","a","l","i","n","g">>

format_resource_type(resource_type) ==
    LET parts == Split(resource_type, "_")
        formatted_parts == [i \in DOMAIN parts |-> FormatPart(parts[i])]
        formatted_resource_type == Join(formatted_parts, <<" ">>)
    IN Replace(formatted_resource_type, Appautoscaling, AppAutoScaling)

\* ------------------------------------------------------------ get_resource_info

aws_instance == <<"a","w","s","_","i","n","s","t","a","n","c","e">>

aws_db_instance == <<"a","w","s","_","d","b","_","i","n","s","t","a","n","c","e">>

aws_ecs_task_definition == <<"a","w","s","_","e","c","s","_","t","a","s","k","_","d","e","f","i","n","i","t","i","o","n">>

this == <<"t","h","i","s">>

\* dict.get(key, default)
DictGet(d, key, default) == IF key \in DOMAIN d THEN d[key] ELSE default

\* mutant of InstanceTypeStep: only aws_instance gets 'instance type'
InstanceTypeStepComputeOnly(info, resource_type, attrs, variables, tfvars_files, root_variables, root_main_tf) ==
    IF resource_type = aws_instance
    THEN LET instance_type == resolve_interpolation(DictGet(attrs, "instance_type", PyStr(NA)),
                 variables, tfvars_files, root_variables, root_main_tf, 1) IN
         IF instance_type.ok THEN Ok(info @@ ("instance type" :> instance_type.val))
                             ELSE instance_type
    ELSE Ok(info)

\* the block for aws_instance and aws_db_instance: 'instance type'
InstanceTypeStep(info, resource_type, attrs, variables, tfvars_files, root_variables, root_main_tf) ==
    IF resource_type \in {aws_instance, aws_db_instance}
    THEN LET instance_type == resolve_interpolation(
                 DictGet(attrs, IF resource_type = aws_instance THEN "instance_type"
                                                                ELSE "instance_class", PyStr(NA)),
                 variables, tfvars_files, root_variables, root_main_tf, 1) IN
         IF instance_type.ok THEN Ok(info @@ ("instance type" :> instance_type.val))
                             ELSE instance_type
    ELSE Ok(info)

\* the block for aws_ecs_task_definition: 'cpu', then 'memory'
TaskDefinitionStep(info, resource_type, attrs, variables, tfvars_files, root_variables, root_main_tf) ==
    IF resource_type = aws_ecs_task_definition
    THEN LET cpu == resolve_interpolation(DictGet(attrs, "cpu", PyStr(NA)),
                        variables, tfvars_files, root_variables, root_main_tf, 1)
             memory == resolve_interpolation(DictGet(attrs, "memory", PyStr(NA)),
                        variables, tfvars_files, root_variables, root_main_tf, 1) IN
         IF ~cpu.ok THEN cpu
         ELSE IF ~memory.ok THEN memory
         ELSE Ok(info @@ ("cpu" :> cpu.val) @@ ("memory" :> memory.val))
    ELSE Ok(info)

\* the block for aws_db_instance: 'storage size'
StorageSizeStep(info, resource_type, attrs, variables, tfvars_files, root_variables, root_main_tf) ==
    IF resource_type = aws_db_instance
    THEN LET storage_size == resolve_interpolation(DictGet(attrs, "allocated_storage", PyStr(NA)),
                                 variables, tfvars_files, root_variables, root_main_tf, 1) IN
         IF storage_size.ok THEN Ok(info @@ ("storage size" :> storage_size.val))
                            ELSE storage_size
    ELSE Ok(info)

get_resource_info(resource_type, resource_name, instances, variables, tfvars_files, root_variables, root_main_tf) ==
    LET resource_info == ("resource type" :> PyStr(format_resource_type(resource_type)))
                         @@ ("resource name" :> PyStr(IF resource_name = this THEN <<>>
                                                                             ELSE resource_name))
        attrs == instances[resource_name]
        s1 == InstanceTypeStep(resource_info, resource_type, attrs,
                               variables, tfvars_files, root_variables, root_main_tf)
        s2 == TaskDefinitionStep(s1.val, resource_type, attrs,
                                 variables, tfvars_files, root_variables, root_main_tf)
        s3 == StorageSizeStep(s2.val, resource_type, attrs,
                              variables, tfvars_files, root_variables, root_main_tf)
    IN IF ~s1.ok THEN s1 ELSE IF ~s2.ok THEN s2 ELSE s3

\* ------------------------------------------------------------ the directory tree

\* A .tf file as hcl2.load sees it: the 'variable', 'resource' and 'module' lists
\* (an absent key is an empty list, as config.get(key, []) reads it).
\*   variable block: [name, has_default, default]
\*   resource block: [type, instances], instances a dict from instance name to attributes
\*   module block:   a dict from argument name to value
TfFile(variable, resource, module) ==
    [exists |-> TRUE, bad |-> FALSE, variable |-> variable, resource |-> resource, module |-> module]

BadTf == [exists |-> TRUE, bad |-> TRUE, variable |-> <<>>, resource |-> <<>>, module |-> <<>>]

NoTf == [exists |-> FALSE, bad |-> FALSE, variable |-> <<>>, resource |-> <<>>, module |-> <<>>]

\* the paths glob can discover, in discovery order
TfPaths == << <<".", "main.tf">>, <<".", "variables.tf">>,
              <<"mod", "main.tf">>, <<"mod", "variables.tf">> >>

TfvarsPaths == << <<".", "a.tfvars">>, <<".", "b.tfvars">>, <<"mod", "a.tfvars">> >>

\* mutant of Update: a key the dict already holds keeps its value
UpdateKeepsExisting(d, other) == [k \in DOMAIN d \cup DOMAIN other |-> IF k \in DOMAIN d THEN d[k] ELSE other[k]]

\* dict.update(other)
Update(d, other) == [k \in DOMAIN d \cup DOMAIN other |-> IF k \in DOMAIN other THEN other[k] ELSE d[k]]

\* the loop over config.get('variable', []): variables[var_name] = var_attrs['default']
RECURSIVE Defaults(_, _, _)
Defaults(blocks, k, acc) ==
    IF k > Len(blocks) THEN acc
    ELSE Defaults(blocks, k + 1,
                  IF blocks[k].has_default
                  THEN Update(acc, blocks[k].name :> blocks[k].default) ELSE acc)

\* glob.glob(os.path.join(base_path, '*.tfvars'))
GlobTfvars(files, base_path) ==
    SelectSeq(TfvarsPaths, LAMBDA p : p[1] = base_path /\ files.tfvars[p].exists)

\* parse_variables returns the paths; get_variable_value opens them at every lookup.
\* The tree does not change during a run, so the list handed on holds the contents.
parse_variables(files, base_path) ==
    LET variables_file == files.tf[<<base_path, "variables.tf">>]
        paths == GlobTfvars(files, base_path)
        contents == [i \in DOMAIN paths |-> files.tfvars[paths[i]]]
    IN IF variables_file.exists /\ variables_file.bad THEN Raise("ParseError")
       ELSE Ok([variables |-> IF variables_file.exists
                              THEN Defaults(variables_file.variable, 1, <<>>) ELSE <<>>,
                tfvars_files |-> contents])

\* the loop over root_tfvars_files: root_variables.update(tfvars)
RECURSIVE MergeTfvars(_, _, _)
MergeTfvars(contents, k, acc) ==
    IF k > Len(contents) THEN Ok(acc)
    ELSE IF contents[k].bad THEN Raise("ParseError")
    ELSE MergeTfvars(contents, k + 1, Update(acc, contents[k].vars))

\* the loop over config.get('module', []): root_main_tf[attr_name] = attr_value
RECURSIVE ModuleArgs(_, _, _)
ModuleArgs(modules, k, acc) ==
    IF k > Len(modules) THEN acc
    ELSE ModuleArgs(modules, k + 1, Update(acc, modules[k]))

get_root_variables_and_main_tf(files, root_path) ==
    LET root_variables_file == files.tf[<<root_path, "variables.tf">>]
        paths == GlobTfvars(files, root_path)
        merged == MergeTfvars([i \in DOMAIN paths |-> files.tfvars[paths[i]]], 1,
                              IF root_variables_file.exists
                              THEN Defaults(root_variables_file.variable, 1, <<>>) ELSE <<>>)
        root_main_tf_file == files.tf[<<root_path, "main.tf">>]
    IN IF root_variables_file.exists /\ root_variables_file.bad THEN Raise("ParseError")
       ELSE IF ~merged.ok THEN merged
       ELSE IF root_main_tf_file.exists /\ root_main_tf_file.bad THEN Raise("ParseError")
       ELSE Ok([root_variables |-> merged.val,
                root_main_tf |-> IF root_main_tf_file.exists
                                 THEN ModuleArgs(root_main_tf_file.module, 1, <<>>) ELSE <<>>])

\* glob.glob(os.path.join(base_path, '**', '*.tf'), recursive=True)
find_terraform_files(files) == SelectSeq(TfPaths, LAMBDA p : files.tf[p].exists)

\* instances.keys() as a sequence (hcl2 gives one instance per resource block)
RECURSIVE KeysSeq(_)
KeysSeq(keys) == IF keys = {} THEN <<>>
                 ELSE LET k == CHOOSE x \in keys : TRUE IN <<k>> \o KeysSeq(keys \ {k})

\* the loops of get_resources over one file's resource blocks and their instances:
\* each record is appended as soon as it is built; the first exception ends the walk
RECURSIVE WalkInstances(_, _, _, _, _, _, _, _)
WalkInstances(blocks, b, names, k, acc, scope, rootv, rootm) ==
    IF b > Len(blocks) THEN [resources |-> acc, raised |-> FALSE]
    ELSE IF k > Len(names)
         THEN WalkInstances(blocks, b + 1,
                            IF b + 1 <= Len(blocks) THEN KeysSeq(DOMAIN blocks[b + 1].instances)
                                                    ELSE <<>>,
                            1, acc, scope, rootv, rootm)
    ELSE LET resource_info == get_resource_info(blocks[b].type, names[k], blocks[b].instances,
                                  scope.variables, scope.tfvars_files, rootv, rootm) IN
         IF ~resource_info.ok THEN [resources |-> acc, raised |-> TRUE]
         ELSE WalkInstances(blocks, b, names, k + 1, Append(acc, resource_info.val),
                            scope, rootv, rootm)

\* the try block of get_resources for one file, and its except clause
TryFile(files, file_path, acc, scope, rootv, rootm) ==
    LET terraform_config == files.tf[file_path]
        blocks == terraform_config.resource
    IN IF terraform_config.bad THEN [resources |-> acc, raised |-> TRUE]
       ELSE WalkInstances(blocks, 1,
                          IF Len(blocks) >= 1 THEN KeysSeq(DOMAIN blocks[1].instances) ELSE <<>>,
                          1, acc, scope, rootv, rootm)

fieldnames == <<"resource type", "resource name", "cpu", "memory", "instance type", "storage size">>

\* csv.DictWriter.writerow: a key the record lacks is written as the empty string
CsvRow(resource) == [f \in Range(fieldnames) |-> IF f \in DOMAIN resource THEN ToStr(resource[f]) ELSE <<>>]

\* ------------------------------------------------------------------ main

CallVars == <<call, ret>>

\* terraform_files = find_terraform_files(base_path)
FindTerraformFiles ==
    /\ pc = "find"
    /\ terraform_files' = find_terraform_files(fs)
    /\ pc' = "root"
    /\ UNCHANGED <<fs, main_root_variables, main_root_main_tf, resources, file_idx, printed, error, csv, CallVars>>

\* root_variables, root_main_tf = get_root_variables_and_main_tf(base_path)
GetRootVariablesAndMainTf ==
    /\ pc = "root"
    /\ LET r == get_root_variables_and_main_tf(fs, ".") IN
       IF r.ok
       THEN /\ main_root_variables' = r.val.root_variables
            /\ main_root_main_tf' = r.val.root_main_tf
            /\ pc' = "walk"
            /\ error' = error
       ELSE /\ pc' = "aborted"
            /\ error' = r.err
            /\ UNCHANGED <<main_root_variables, main_root_main_tf>>
    /\ UNCHANGED <<fs, terraform_files, resources, file_idx, printed, csv, CallVars>>

\* one iteration of the loop of get_resources: parse_variables outside the try,
\* the file's walk inside it
GetResourcesFile ==
    /\ pc = "walk"
    /\ file_idx <= Len(terraform_files)
    /\ LET file_path == terraform_files[file_idx]
           scope == parse_variables(fs, file_path[1])
       IN IF ~scope.ok
          THEN /\ pc' = "aborted"
               /\ error' = scope.err
               /\ UNCHANGED <<resources, file_idx, printed>>
          ELSE LET walked == TryFile(fs, file_path, resources, scope.val,
                                     main_root_variables, main_root_main_tf) IN
               /\ resources' = walked.resources
               /\ printed' = IF walked.raised THEN Append(printed, file_path) ELSE printed
               /\ file_idx' = file_idx + 1
               /\ UNCHANGED <<pc, error>>
    /\ UNCHANGED <<fs, terraform_files, main_root_variables, main_root_main_tf, csv, CallVars>>

\* write_to_csv(resources, output_csv_path)
WriteToCsv ==
    /\ pc = "walk"
    /\ file_idx > Len(terraform_files)
    /\ csv' = [i \in DOMAIN resources |-> CsvRow(resources[i])]
    /\ pc' = "done"
    /\ UNCHANGED <<fs, terraform_files, main_root_variables, main_root_main_tf, resources, file_idx,
                   printed, error, CallVars>>

\* open(output_file, 'w') fails: the only exception main lets out by design
WriteToCsvFails ==
    /\ pc = "walk"
    /\ file_idx > Len(terraform_files)
    /\ pc' = "aborted"
    /\ error' = "OSError"
    /\ UNCHANGED <<fs, terraform_files, main_root_variables, main_root_main_tf, resources, file_idx,
                   printed, csv, CallVars>>

Next == \/ FindTerraformFiles
        \/ GetRootVariablesAndMainTf
        \/ GetResourcesFile
        \/ WriteToCsv
        \/ WriteToCsvFails

\* ------------------------------------------------------------ the inputs of a run

\* every dict from a subset of keys to values
Maps(keys, values) == UNION { [d -> values] : d \in SUBSET keys }

\* every sequence over S of length at most n
SeqsUpTo(n, S) == UNION { [1..k -> S] : k \in 0..n }

name_a == <<"a">>

name_b == <<"b">>

Names == {name_a, name_b}

\* a literal string of one character
Lit(c) == PyStr(<<c>>)

web == <<"w", "e", "b">>

aws_vpc == <<"a", "w", "s", "_", "v", "p", "c">>

\* the most resource blocks a file of the tree holds
MaxBlocks == 2

\* resource blocks: a compute instance whose type is a reference, a database
\* instance with literal attributes, a task definition with cpu only
ResourceBlocks ==
    { [type |-> aws_instance, instances |-> (web :> ("instance_type" :> PyStr(Ref(name_a))))],
      [type |-> aws_db_instance,
       instances |-> (this :> (("instance_class" :> PyStr(<<"m", "5">>))
                               @@ ("allocated_storage" :> PyInt(20))))],
      [type |-> aws_ecs_task_definition, instances |-> (web :> ("cpu" :> PyStr(Ref(name_b))))] }

RootVariablesTf ==
    { NoTf, BadTf,
      TfFile(<< [name |-> name_a, has_default |-> TRUE, default |-> Lit("r")],
                [name |-> name_b, has_default |-> FALSE, default |-> NoneVal] >>, <<>>, <<>>) }

RootTfvarsA == { NoTfvars, BadFile, Tfvars(name_a :> Lit("o")),
                 Tfvars((name_a :> Lit("o")) @@ (name_b :> Lit("o"))) }

RootTfvarsB == { NoTfvars, BadFile, Tfvars(name_a :> Lit("p")), Tfvars(name_b :> Lit("p")) }

RootMainTf ==
    { NoTf, BadTf,
      TfFile(<<>>, << [type |-> aws_vpc, instances |-> (this :> <<>>)] >>,
             << (name_b :> Lit("g")),
                ((name_b :> Lit("h")) @@ (name_a :> PyStr(Ref(name_b)))) >>) }

ModVariablesTf ==
    { NoTf, BadTf,
      TfFile(<< [name |-> name_b, has_default |-> TRUE, default |-> Lit("l")] >>, <<>>, <<>>) }

ModTfvarsA == { NoTfvars, BadFile, Tfvars(name_a :> Lit("m")) }

ModMainTf == { BadTf } \cup { TfFile(<<>>, blocks, <<>>) : blocks \in SeqsUpTo(MaxBlocks, ResourceBlocks) }

\* a run of main holds no single call
NoCall == [fn |-> "main"]

\* no directory tree: a single call reads none
NoTree == [tf |-> <<>>, tfvars |-> <<>>]

\* main starts with nothing read
Init ==
    /\ pc = "find"
    /\ \E rv \in RootVariablesTf, ra \in RootTfvarsA, rb \in RootTfvarsB, rm \in RootMainTf,
          mv \in ModVariablesTf, ma \in ModTfvarsA, mm \in ModMainTf :
          fs = [tf |-> (<<".", "main.tf">> :> rm) @@ (<<".", "variables.tf">> :> rv)
                       @@ (<<"mod", "main.tf">> :> mm) @@ (<<"mod", "variables.tf">> :> mv),
                tfvars |-> (<<".", "a.tfvars">> :> ra) @@ (<<".", "b.tfvars">> :> rb)
                           @@ (<<"mod", "a.tfvars">> :> ma)]
    /\ terraform_files = <<>>
    /\ main_root_variables = <<>>
    /\ main_root_main_tf = <<>>
    /\ resources = <<>>
    /\ file_idx = 1
    /\ printed = <<>>
    /\ error = "none"
    /\ csv = <<>>
    /\ call = NoCall
    /\ ret = Ok(NoneVal)

Spec == Init /\ [][Next]_vars

\* ------------------------------------------------------------ the inputs of a call

\* the most override files a directory holds
MaxTfvars == 2

\* the most underscore-separated segments of a resource kind
MaxSegments == 3

Call(f, n, v, rt, rn, inst, vs, tf, rv, rm) ==
    [fn |-> f, var_name |-> n, value |-> v, resource_type |-> rt, resource_name |-> rn,
     instances |-> inst, variables |-> vs, tfvars_files |-> tf,
     root_variables |-> rv, root_main_tf |-> rm]

\* override files for a lookup: malformed, or holding any subset of the names
OverrideFiles == {BadFile} \cup { Tfvars(m) : m \in Maps(Names, {Lit("t")}) }
                           \cup { Tfvars(name_a :> Lit("u")) }

\* root values: a literal, a string with a reference in it, a list with one in it
RootValues == { Lit("r"), PyStr(<<"x", "-">> \o Ref(name_b)), PyList(Ref(name_b)) }

ArgValues == { Lit("g"), PyStr(Ref(name_b)) }

LookupCalls ==
    \E n \in Names, vs \in Maps(Names, {Lit("l")}), tf \in SeqsUpTo(MaxTfvars, OverrideFiles),
       rv \in Maps(Names, RootValues), rm \in Maps(Names, ArgValues) :
        call = Call("get_variable_value", n, NoneVal, <<>>, <<>>, <<>>, vs, tf, rv, rm)

ResolveValues == { PyStr(Ref(name_a)), PyStr(Ref(name_a) \o <<"-">> \o Ref(name_b)),
                   PyStr(Ref(name_a) \o Ref(name_a)), Lit("t"), PyInt(20), PyList(Ref(name_a)) }

ResolveCalls ==
    \E v \in ResolveValues, vs \in Maps(Names, {Lit("l"), PyStr(Ref(name_b))}),
       tf \in {<<>>, <<Tfvars(name_a :> PyStr(Ref(name_b)))>>, <<BadFile>>},
       rv \in Maps(Names, {PyStr(Ref(name_a)), PyStr(Ref(name_b))}),
       rm \in {<<>>, (name_b :> Lit("g"))} :
        call = Call("resolve_interpolation", <<>>, v, <<>>, <<>>, <<>>, vs, tf, rv, rm)

\* the attributes of an instance: each one present or absent
AttributeValues == ("instance_type" :> PyStr(Ref(name_a))) @@ ("instance_class" :> PyStr(Ref(name_a)))
                   @@ ("allocated_storage" :> PyInt(20)) @@ ("cpu" :> PyStr(Ref(name_b)))
                   @@ ("memory" :> Lit("5"))

Attributes == { [k \in d |-> AttributeValues[k]] : d \in SUBSET DOMAIN AttributeValues }

RecordCalls ==
    \E rt \in {aws_instance, aws_db_instance, aws_ecs_task_definition, aws_vpc},
       rn \in {this, web}, attrs \in Attributes,
       vs \in Maps(Names, {Lit("l"), PyStr(Ref(name_b))}),
       tf \in {<<>>, <<BadFile>>},
       rv \in {<<>>, (name_a :> Lit("r")), (name_a :> PyStr(Ref(name_a)))} :
        call = Call("get_resource_info", <<>>, NoneVal, rt, rn, (rn :> attrs), vs, tf, rv, <<>>)

Segments == { <<"a", "w", "s">>,
              <<"d", "b">>,
              <<"i", "n", "s", "t", "a", "n", "c", "e">>,
              <<"a", "p", "p", "a", "u", "t", "o", "s", "c", "a", "l", "i", "n", "g">>,
              <<"p", "o", "l", "i", "c", "y">>,
              <<"e", "c", "s">> }

FormatCalls ==
    \E parts \in SeqsUpTo(MaxSegments, Segments) :
        call = Call("format_resource_type", <<>>, NoneVal, Join(parts, <<"_">>),
                    <<>>, <<>>, <<>>, <<>>, <<>>, <<>>)

\* a single call of one function, on arguments drawn from the sets above
InitCalls ==
    /\ pc = "call"
    /\ (LookupCalls \/ ResolveCalls \/ RecordCalls \/ FormatCalls)
    /\ ret = Ok(NoneVal)
    /\ fs = NoTree
    /\ terraform_files = <<>>
    /\ main_root_variables = <<>>
    /\ main_root_main_tf = <<>>
    /\ resources = <<>>
    /\ file_idx = 1
    /\ printed = <<>>
    /\ error = "none"
    /\ csv = <<>>

MainVars == <<fs, terraform_files, main_root_variables, main_root_main_tf, resources,
              file_idx, printed, error, csv>>

CallGetVariableValue ==
    /\ pc = "call"
    /\ call.fn = "get_variable_value"
    /\ ret' = get_variable_value(call.var_name, call.variables, call.tfvars_files,
                                 call.root_variables, call.root_main_tf, 1)
    /\ pc' = "returned"
    /\ UNCHANGED <<call, MainVars>>

CallResolveInterpolation ==
    /\ pc = "call"
    /\ call.fn = "resolve_interpolation"
    /\ ret' = resolve_interpolation(call.value, call.variables, call.tfvars_files,
                                    call.root_variables, call.root_main_tf, 1)
    /\ pc' = "returned"
    /\ UNCHANGED <<call, MainVars>>

CallGetResourceInfo ==
    /\ pc = "call"
    /\ call.fn = "get_resource_info"
    /\ ret' = get_resource_info(call.resource_type, call.resource_name, call.instances,
                                call.variables, call.tfvars_files,
                                call.root_variables, call.root_main_tf)
    /\ pc' = "returned"
    /\ UNCHANGED <<call, MainVars>>

CallFormatResourceType ==
    /\ pc = "call"
    /\ call.fn = "format_resource_type"
    /\ ret' = Ok(PyStr(format_resource_type(call.resource_type)))
    /\ pc' = "returned"
    /\ UNCHANGED <<call, MainVars>>

NextCalls == \/ CallGetVariableValue
             \/ CallResolveInterpolation
             \/ CallGetResourceInfo
             \/ CallFormatResourceType

SpecCalls == InitCalls /\ [][NextCalls]_vars

\* ================================================================== claims

Returned(f) == pc = "returned" /\ call.fn = f

\* the override files of a call that hold the name
Holders(files, n) == { i \in DOMAIN files : ~files[i].bad /\ n \in DOMAIN files[i].vars }

Min(S) == CHOOSE x \in S : \A y \in S : x <= y

Max(S) == CHOOSE x \in S : \A y \in S : x >= y

NoBadFile(files) == \A i \in DOMAIN files : ~files[i].bad

\* a value with no reference in it: not a string, or a string the pattern does not match
ReferenceFree(v) == v.t # "str" \/ FindAll(v.s) = <<>>

\* the name is in none of the four sources
Nowhere(n) == /\ n \notin DOMAIN call.variables
              /\ NoBadFile(call.tfvars_files)
              /\ Holders(call.tfvars_files, n) = {}
              /\ n \notin DOMAIN call.root_variables
              /\ n \notin DOMAIN call.root_main_tf

\* C1: get_variable_value takes the value from the first of local scope, override
\* files (the first file holding the name), root defaults, root module arguments
\* that holds the name, and returns 'N/A' for a name none of them holds.
C1_LookupPrecedence ==
    Returned("get_variable_value") =>
        LET n == call.var_name
            files == call.tfvars_files
            holders == Holders(files, n)
        IN /\ n \in DOMAIN call.variables => ret = Ok(call.variables[n])
           /\ ( /\ n \notin DOMAIN call.variables
                /\ holders # {}
                /\ \A j \in 1..(Min(holders) - 1) : ~files[j].bad )
              => ret = Ok(files[Min(holders)].vars[n])
           /\ ( /\ n \notin DOMAIN call.variables
                /\ holders = {} /\ NoBadFile(files)
                /\ n \in DOMAIN call.root_variables
                /\ ReferenceFree(call.root_variables[n]) )
              => ret = Ok(call.root_variables[n])
           /\ ( /\ n \notin DOMAIN call.variables
                /\ holders = {} /\ NoBadFile(files)
                /\ n \notin DOMAIN call.root_variables
                /\ n \in DOMAIN call.root_main_tf
                /\ ReferenceFree(call.root_main_tf[n]) )
              => ret = Ok(call.root_main_tf[n])
           /\ Nowhere(n) => ret = Ok(PyStr(NA))

\* C1 witness: a name outside local scope that two override files, the root defaults
\* and the module arguments all hold, answered from the first override file
C1_Witness ==
    /\ Returned("get_variable_value")
    /\ call.var_name \notin DOMAIN call.variables
    /\ Len(call.tfvars_files) = 2
    /\ Holders(call.tfvars_files, call.var_name) = {1, 2}
    /\ call.tfvars_files[1].vars[call.var_name] # call.tfvars_files[2].vars[call.var_name]
    /\ call.var_name \in DOMAIN call.root_variables
    /\ call.var_name \in DOMAIN call.root_main_tf
    /\ ret = Ok(call.tfvars_files[1].vars[call.var_name])

\* C2: no resolved attribute of a record get_resource_info builds holds an
\* unresolved ${var.NAME} pattern.
C2_NoUnresolvedReference ==
    (Returned("get_resource_info") /\ ret.ok) =>
        \A key \in {"instance type", "storage size", "cpu", "memory"} \cap DOMAIN ret.val :
            ret.val[key].t = "str" => FindAll(ret.val[key].s) = <<>>

\* C3: resolving '${var.x}' terminates when x is outside local scope and override
\* files and its root default (or module argument) is the string '${var.x}'.
C3_SelfReferenceTerminates ==
    ( /\ Returned("resolve_interpolation")
      /\ \E x \in Names :
            /\ call.value = PyStr(Ref(x))
            /\ x \notin DOMAIN call.variables
            /\ NoBadFile(call.tfvars_files)
            /\ Holders(call.tfvars_files, x) = {}
            /\ \/ x \in DOMAIN call.root_variables /\ call.root_variables[x] = PyStr(Ref(x))
               \/ /\ x \notin DOMAIN call.root_variables
                  /\ x \in DOMAIN call.root_main_tf /\ call.root_main_tf[x] = PyStr(Ref(x)) )
    => ret.err # "RecursionError"

\* the original string with each match replaced in place by the text of its own
\* resolved value, the text between the matches left as it is
RECURSIVE SubstitutedInPlace(_, _)
SubstitutedInPlace(s, i) ==
    IF i > Len(s) THEN <<>>
    ELSE IF MatchesAt(s, i)
         THEN ToStr(get_variable_value(SubSeq(s, i + 6, IdEnd(s, i + 6)), call.variables,
                                       call.tfvars_files, call.root_variables,
                                       call.root_main_tf, 1).val)
              \o SubstitutedInPlace(s, IdEnd(s, i + 6) + 2)
         ELSE <<s[i]>> \o SubstitutedInPlace(s, i + 1)

\* C4: within one call of resolve_interpolation each match of the original string
\* is substituted independently: the result is the original string with each
\* original occurrence replaced in place by its own resolved value.
C4_IndependentSubstitution ==
    (Returned("resolve_interpolation") /\ ret.ok /\ call.value.t = "str") =>
        ret.val = PyStr(SubstitutedInPlace(call.value.s, 1))

\* some configuration file of the tree is malformed
SomeMalformed == \/ \E p \in DOMAIN fs.tf : fs.tf[p].exists /\ fs.tf[p].bad
                 \/ \E p \in DOMAIN fs.tfvars : fs.tfvars[p].exists /\ fs.tfvars[p].bad

\* C5: no error other than a failure to write the report is fatal to a run of main.
C5_OnlyWriteFailureIsFatal == pc = "aborted" => error = "OSError"

\* C6: a file whose processing fails in get_resources contributes no records: the
\* step that prints its error leaves the accumulated list as it was.
C6_FailedFileContributesNothing == [][printed' # printed => resources' = resources]_vars

\* C7 as stated: format_resource_type applied to its own output returns that output,
\* for every resource kind.
C7_Idempotent ==
    Returned("format_resource_type") => format_resource_type(ret.val.s) = ret.val.s

aws_appautoscaling_policy == <<"a", "w", "s", "_", "a", "p", "p", "a", "u", "t", "o", "s", "c", "a", "l", "i", "n", "g", "_", "p", "o", "l", "i", "c", "y">>

\* C7 as amended: format_resource_type applied to its own output returns that output
\* for every kind of a single segment (no underscore); aws_db_instance gives
\* 'AWS DB Instance' and aws_appautoscaling_policy 'AWS AppAutoScaling Policy'.
C7_IdempotentOnSingleSegment ==
    Returned("format_resource_type") =>
        /\ "_" \notin Range(call.resource_type) => format_resource_type(ret.val.s) = ret.val.s
        /\ call.resource_type = aws_db_instance => ret.val.s = <<"A", "W", "S", " ", "D", "B", " ", "I", "n", "s", "t", "a", "n", "c", "e">>
        /\ call.resource_type = aws_appautoscaling_policy
           => ret.val.s = <<"A", "W", "S", " ", "A", "p", "p", "A", "u", "t", "o", "S", "c", "a", "l", "i", "n", "g", " ", "P", "o", "l", "i", "c", "y">>

\* C7 witness: the single segment 'appautoscaling' formatted to 'AppAutoScaling'
C7_Witness ==
    /\ Returned("format_resource_type")
    /\ call.resource_type = <<"a", "p", "p", "a", "u", "t", "o", "s", "c", "a", "l", "i", "n", "g">>
    /\ ret.val.s = AppAutoScaling

\* the root-level override files that exist, in discovery order
RootOverrides == SelectSeq(<<fs.tfvars[<<".", "a.tfvars">>], fs.tfvars[<<".", "b.tfvars">>]>>,
                           LAMBDA f : f.exists)

\* the variable blocks of the root declaration file that declare a default for the name
RootDeclared(n) ==
    LET f == fs.tf[<<".", "variables.tf">>] IN
    IF f.exists THEN { i \in DOMAIN f.variable : f.variable[i].name = n /\ f.variable[i].has_default }
    ELSE {}

\* C8: the root variable mapping gives, for every name, the value of the last root
\* override file holding it, the declared default only when no override file holds
\* it, and nothing otherwise; a missing file is no error.
C8_RootOverridesWin ==
    /\ pc \in {"walk", "done"} =>
        \A n \in Names :
            LET holders == Holders(RootOverrides, n)
                declared == RootDeclared(n)
            IN IF holders # {}
               THEN /\ n \in DOMAIN main_root_variables
                    /\ main_root_variables[n] = RootOverrides[Max(holders)].vars[n]
               ELSE IF declared # {}
               THEN /\ n \in DOMAIN main_root_variables
                    /\ main_root_variables[n]
                         = fs.tf[<<".", "variables.tf">>].variable[Max(declared)].default
               ELSE n \notin DOMAIN main_root_variables
    /\ (pc = "aborted" /\ error = "ParseError") => SomeMalformed

\* C8 witness: both root override files and the declaration file give the name a
\* value, and the mapping holds the second override file's
C8_Witness ==
    /\ pc = "walk"
    /\ Len(RootOverrides) = 2
    /\ Holders(RootOverrides, name_a) = {1, 2}
    /\ RootDeclared(name_a) # {}
    /\ main_root_variables[name_a] = RootOverrides[2].vars[name_a]
    /\ main_root_variables[name_a] # RootOverrides[1].vars[name_a]

\* the keys get_resource_info adds for a resource kind, each with its source attribute
KindFields(rt) ==
    IF rt = aws_instance THEN ("instance type" :> "instance_type")
    ELSE IF rt = aws_db_instance
         THEN ("instance type" :> "instance_class") @@ ("storage size" :> "allocated_storage")
    ELSE IF rt = aws_ecs_task_definition THEN ("cpu" :> "cpu") @@ ("memory" :> "memory")
    ELSE <<>>

\* C9: a record has exactly 'resource type', 'resource name' and the keys of its
\* kind; an absent source attribute gives 'N/A'; the fields of other kinds are
\* empty in the report; 'resource name' is empty exactly for the instance 'this'.
C9_RecordShape ==
    (Returned("get_resource_info") /\ ret.ok) =>
        LET fields == KindFields(call.resource_type)
            attrs == call.instances[call.resource_name]
            record == ret.val
        IN /\ DOMAIN record = {"resource type", "resource name"} \cup DOMAIN fields
           /\ \A key \in DOMAIN fields :
                 fields[key] \notin DOMAIN attrs => record[key] = PyStr(NA)
           /\ \A f \in Range(fieldnames) \ DOMAIN record : CsvRow(record)[f] = <<>>
           /\ \A f \in DOMAIN record : CsvRow(record)[f] = ToStr(record[f])
           /\ (record["resource name"] = PyStr(<<>>)) <=> (call.resource_name = this)
           /\ call.resource_name # this => record["resource name"] = PyStr(call.resource_name)

\* C9 witness: a database instance named 'this' with a storage size and no
\* instance class
C9_Witness ==
    /\ Returned("get_resource_info") /\ ret.ok
    /\ call.resource_type = aws_db_instance
    /\ call.resource_name = this
    /\ "instance_class" \notin DOMAIN call.instances[this]
    /\ "allocated_storage" \in DOMAIN call.instances[this]
    /\ ret.val["instance type"] = PyStr(NA)
    /\ ret.val["storage size"] = PyInt(20)

\* the value the lookup finds at root level for a name no local source holds
RootValue(n) == IF n \in DOMAIN call.root_variables THEN call.root_variables[n]
                ELSE call.root_main_tf[n]

OnlyAtRoot(n) == /\ n \notin DOMAIN call.variables
                 /\ NoBadFile(call.tfvars_files)
                 /\ Holders(call.tfvars_files, n) = {}
                 /\ n \in DOMAIN call.root_variables \cup DOMAIN call.root_main_tf

\* C10: a value found only at root level is resolved with the caller's local scope:
\* a reference in it to a name of the local scope becomes the local value, one to a
\* name found nowhere becomes 'N/A', and a value that is no string is returned as it is.
C10_RootValueResolvedLocally ==
    (Returned("get_variable_value") /\ OnlyAtRoot(call.var_name)) =>
        LET v == RootValue(call.var_name) IN
        /\ v.t # "str" => ret = Ok(v)
        /\ \A m \in Names, pre \in {<<>>, <<"x", "-">>} :
              v = PyStr(pre \o Ref(m)) =>
                 /\ m \in DOMAIN call.variables
                    => ret = Ok(PyStr(pre \o ToStr(call.variables[m])))
                 /\ Nowhere(m) => ret = Ok(PyStr(pre \o NA))

\* C10 witness: the root default 'x-${var.b}' of a, with b in the local scope,
\* comes back as 'x-l'
C10_Witness ==
    /\ Returned("get_variable_value")
    /\ OnlyAtRoot(call.var_name)
    /\ call.var_name \in DOMAIN call.root_variables
    /\ call.root_variables[call.var_name] = PyStr(<<"x", "-">> \o Ref(name_b))
    /\ name_b \in DOMAIN call.variables
    /\ ret = Ok(PyStr(<<"x", "-", "l">>))

====
